---- MODULE Spec2Model ----
(***************************************************************************)
(* The chat session of f-v-fake-chat: the useChat composable (the message  *)
(* history with startChat and addMessage) and the FakeChat component that  *)
(* drives it (askQuestion, createResponse, the pending input), with the    *)
(* yes/no service as the only asynchronous collaborator.                   *)
(*                                                                         *)
(* JavaScript runs every handler to completion, so each handler is one     *)
(* action; the only suspension point is the await in createResponse, which *)
(* splits it into the part that issues the request (inside askQuestion)    *)
(* and the continuation that runs when the request settles.                *)
(***************************************************************************)
EXTENDS Integers, Sequences, FiniteSets, TLC

\* ------------------------------------------------------------------ bounds
\* Most askQuestion calls in one run.
MaxAsks == 2
\* Most direct addMessage calls in one session.
MaxDirect == 3
\* The wall clock runs from 0 to MaxClock.
MaxClock == 1
\* Ticks of the wall clock in one day: the time of day wraps after them.
TicksPerDay == 2

\* ------------------------------------------------------------------ values
\* JavaScript's undefined, where a string is expected (gif, image).
Undefined == "undefined"

\* The texts a user types, as sequences of characters.
Inputs == { <<>>, <<" ">>, <<"?">>, <<"a", "?">> }

\* The bodies the yes/no service answers with: none (undefined or null), or
\* an object with an answer and, optionally, an image.
NoData == [kind |-> "undefined", answer |-> <<>>, image |-> Undefined]
NullData == [kind |-> "null", answer |-> <<>>, image |-> Undefined]
Datas ==
  { NoData, NullData,
    [kind |-> "object", answer |-> <<"y", "e", "s">>, image |-> "x.gif"],
    [kind |-> "object", answer |-> <<"n", "o">>, image |-> Undefined] }

\* A successful HTTP response of the service, as axios delivers it.
HttpResponses == [status : {200}, data : Datas]

\* The arguments a direct caller of addMessage passes.
DirectArgs ==
  [text : { <<>>, <<"a">> }, type : { "question", "answer" },
   gif : { Undefined, "x.gif" }]

VARIABLES
  messages,  \* the ref of useChat: [defined, value]; undefined until startChat
  question,  \* the pending input of the component (v-model)
  now,       \* the wall clock
  fetches,   \* the requests sent to the service, each with the call that sent it
  asks,      \* history: the number of askQuestion calls so far
  calls,     \* history: the addMessage calls since the last startChat (or construction)
  started,   \* history: startChat has been called
  last,      \* history: the operation that ran last
  view       \* the conversation view: [watch, container, queued, bottom]

vars == <<messages, question, now, fetches, asks, calls, started, last, view>>

\* Mutant of ref: the ref is constructed on an empty array, ref([]).
refArray == [defined |-> TRUE, value |-> <<>>]

\* ------------------------------------------------------------------ useChat
\* ref(): a ref that holds undefined.
ref == [defined |-> FALSE, value |-> <<>>]

\* new Date().toLocaleTimeString('es-MX'): the time of day, the date dropped.
toLocaleTimeString(t) == t % TicksPerDay

\* Mutant of OptionalPush: unshift for push, the message goes to the front.
OptionalUnshift(r, m) ==
  IF r.defined THEN [r EXCEPT !.value = <<m>> \o @] ELSE r

\* Mutant of OptionalPush: an undefined ref is given a sequence to push on,
\* (messages.value ??= []).push(m).
OptionalPushOrCreate(r, m) ==
  [defined |-> TRUE, value |-> Append(r.value, m)]

\* Mutant of OptionalPush: the time is recomputed for every message at each
\* push.
OptionalPushRestamp(r, m) ==
  IF r.defined
  THEN [r EXCEPT !.value = [i \in 1..Len(@) + 1 |->
                              IF i <= Len(@) THEN [@[i] EXCEPT !.time = m.time]
                              ELSE m]]
  ELSE r

\* messages.value?.push(m): nothing happens on undefined.
OptionalPush(r, m) ==
  IF r.defined THEN [r EXCEPT !.value = Append(@, m)] ELSE r

\* Mutant of startChat: only an undefined ref is given the empty sequence,
\* messages.value ??= [].
startChatOnce == IF messages.defined THEN messages ELSE [defined |-> TRUE, value |-> <<>>]

\* startChat: messages.value = [].
startChat == [defined |-> TRUE, value |-> <<>>]

\* addMessage(text, type, gif) at time t, on the ref r.
addMessage(r, text, type, gif, t) ==
  OptionalPush(r, [time |-> toLocaleTimeString(t), text |-> text,
                   gif |-> gif, type |-> type])

\* ------------------------------------------------------------------ history
\* The length of the sequence a ref holds, -1 when it holds none.
Size(r) == IF r.defined THEN Len(r.value) ELSE -1

\* One addMessage call, as the history records it: its arguments, who made it
\* ("direct", "askQuestion" or "createResponse") and the askQuestion call it
\* belongs to (0 for none).
Call(text, type, gif, by, a) ==
  [text |-> text, type |-> type, gif |-> gif, by |-> by, ask |-> a]

\* What the history keeps of the operation that ran last: its name, the
\* askQuestion call it belongs to, the body the service answered with, the
\* size of the sequence before it and, for the handlers of the component,
\* the pending input before it.
Last(op, a, d, q) ==
  [op |-> op, ask |-> a, data |-> d, pre |-> Size(messages), q |-> q]

\* The direct addMessage calls of the session so far.
Direct == { i \in 1..Len(calls) : calls[i].by = "direct" }

\* ------------------------------------------------------------------ yesNoService
\* getRandomResponse: axiosClient.get('/api').then(response => response.data).
getRandomResponse(resp) == resp.data

\* ------------------------------------------------------------------ FakeChat
\* String.prototype.charAt, zero-based: the empty string out of range.
charAt(s, i) == IF i >= 0 /\ i < Len(s) THEN s[i + 1] ELSE ""

\* Mutant of EndsWithQuestionMark: the first character is tested, charAt(0).
StartsWithQuestionMark(s) == charAt(s, 0) = "?"

\* Mutant of EndsWithQuestionMark: any input that is not empty is taken for
\* a question, if (question.value).
IsNotEmpty(s) == Len(s) > 0

\* The test of askQuestion: the last character is the question mark.
EndsWithQuestionMark(s) == charAt(s, Len(s) - 1) = "?"

\* JavaScript truthiness of what getRandomResponse resolved to.
Truthy(d) == d.kind = "object"

\* response ? response.answer : ''
AnswerText(d) == IF Truthy(d) THEN d.answer ELSE <<>>

\* Mutant of AnswerGif: the image is not passed on.
AnswerGifDropped(d) == Undefined

\* Mutant of AnswerGif: a stock image stands in when the service sent none,
\* response?.image ?? 'x.gif'.
AnswerGifDefault(d) ==
  IF d.kind = "object" /\ d.image # Undefined THEN d.image ELSE "x.gif"

\* response?.image
AnswerGif(d) == IF d.kind \in {"undefined", "null"} THEN Undefined ELSE d.image

\* Mutant of createResponse: no request is sent while the session has not
\* been started, if (!chat.messages.value) return.
createResponseIfStarted(fs, a, r) ==
  IF r.defined
  THEN Append(fs, [ask |-> a, status |-> "pending", seen |-> Size(r)])
  ELSE fs

\* createResponse up to its await, called by the askQuestion call a: the
\* request is sent. `seen` is history: the size of the sequence r when the
\* request went out.
createResponse(fs, a, r) ==
  Append(fs, [ask |-> a, status |-> "pending", seen |-> Size(r)])

\* Mutant of Pending: the answers are serialised, only the oldest request in
\* flight may settle.
PendingOldest ==
  { f \in 1..Len(fetches) :
      /\ fetches[f].status = "pending"
      /\ \A g \in 1..(f - 1) : fetches[g].status # "pending" }

\* The requests a createResponse is awaiting: each resumes when its own
\* request settles, whatever the others do.
Pending == { f \in 1..Len(fetches) : fetches[f].status = "pending" }

\* Mutant of AppendAnswer: nothing is added when the service answered nothing,
\* if (response) chat.addMessage(...).
AppendAnswerIfAny(r, d, t) ==
  IF Truthy(d) THEN addMessage(r, d.answer, "answer", AnswerGif(d), t) ELSE r

\* createResponse after its await, with the body d the service answered.
AppendAnswer(r, d, t) == addMessage(r, AnswerText(d), "answer", AnswerGif(d), t)

\* ------------------------------------------------------------------ view
\* The conversation view of the component. watch: the component registers
\* the watcher on history (the later revision does, the first does not);
\* container: chatContainer.value is an element, not null; queued: the
\* watcher has fired and its nextTick callback has not run yet; bottom: the
\* container was scrolled to its end after the last change of the sequence.
Views == [watch : BOOLEAN, container : BOOLEAN, queued : BOOLEAN, bottom : BOOLEAN]

\* history = computed(() => chat.messages.value): the ref's current content.
history == messages

\* Mutant of Watch: the watcher is registered without { deep: true }, so it
\* fires for a replaced array and not for a push.
WatchShallow(v, replaced, old, new) ==
  [v EXCEPT !.queued = @ \/ (v.watch /\ replaced),
            !.bottom = @ /\ (new = old)]

\* watch(history, ..., { deep: true }): what a handler that takes the ref
\* from old to new does to the view v. The watcher fires when the array was
\* replaced or anything in it changed, and queues the scroll; whatever
\* changed the sequence leaves the view short of its new end.
Watch(v, replaced, old, new) ==
  [v EXCEPT !.queued = @ \/ (v.watch /\ (replaced \/ new # old)),
            !.bottom = @ /\ (new = old)]

\* ------------------------------------------------------------------ actions
Init ==
  /\ messages = ref
  /\ question = <<>>
  /\ now = 0
  /\ fetches = <<>>
  /\ asks = 0
  /\ calls = <<>>
  /\ started = FALSE
  /\ last = [op |-> "init", ask |-> 0, data |-> NoData, pre |-> -1, q |-> <<>>]
  /\ view = [watch |-> FALSE, container |-> FALSE, queued |-> FALSE, bottom |-> TRUE]

\* startChat(), from onMounted or from any holder of the composable.
Start ==
  /\ messages' = startChat
  /\ calls' = <<>>
  /\ started' = TRUE
  /\ last' = Last("start", 0, NoData, <<>>)
  /\ view' = Watch(view, TRUE, messages, messages')
  /\ UNCHANGED <<question, now, fetches, asks>>

\* addMessage(text, type, gif), called directly on the composable.
AddMessageCall ==
  \E args \in DirectArgs :
    /\ Cardinality(Direct) < MaxDirect
    /\ messages' = addMessage(messages, args.text, args.type, args.gif, now)
    /\ calls' = Append(calls, Call(args.text, args.type, args.gif, "direct", 0))
    /\ last' = Last("addMessage", 0, NoData, <<>>)
    /\ view' = Watch(view, FALSE, messages, messages')
    /\ UNCHANGED <<question, now, fetches, asks, started>>

\* The user edits the input field (v-model).
Input ==
  \E s \in Inputs :
    /\ s # question
    /\ question' = s
    /\ last' = Last("input", 0, NoData, <<>>)
    /\ UNCHANGED <<messages, now, fetches, asks, calls, started, view>>

\* Mutant of AskQuestion: the response is requested before the question is
\* added.
AskQuestionRequestFirst ==
  LET a == asks + 1
      added == addMessage(messages, question, "question", Undefined, now)
  IN  /\ asks < MaxAsks
      /\ asks' = a
      /\ fetches' = IF EndsWithQuestionMark(question)
                    THEN createResponse(fetches, a, messages) ELSE fetches
      /\ messages' = added
      /\ question' = <<>>
      /\ calls' = Append(calls, Call(question, "question", Undefined, "askQuestion", a))
      /\ last' = Last("askQuestion", a, NoData, question)
      /\ view' = Watch(view, FALSE, messages, messages')
      /\ UNCHANGED <<now, started>>

\* Mutant of AskQuestion: createResponse is awaited, so the input is not yet
\* cleared when the handler gives way to the request.
AskQuestionAwaiting ==
  LET a == asks + 1
      added == addMessage(messages, question, "question", Undefined, now)
  IN  /\ asks < MaxAsks
      /\ asks' = a
      /\ messages' = added
      /\ fetches' = IF EndsWithQuestionMark(question)
                    THEN createResponse(fetches, a, added) ELSE fetches
      /\ question' = IF EndsWithQuestionMark(question) THEN question ELSE <<>>
      /\ calls' = Append(calls, Call(question, "question", Undefined, "askQuestion", a))
      /\ last' = Last("askQuestion", a, NoData, question)
      /\ view' = Watch(view, FALSE, messages, messages')
      /\ UNCHANGED <<now, started>>

\* askQuestion(): the question is added, a response is requested when the
\* input ends in '?', the input is cleared. createResponse is not awaited.
AskQuestion ==
  LET a == asks + 1
      added == addMessage(messages, question, "question", Undefined, now)
  IN  /\ asks < MaxAsks
      /\ asks' = a
      /\ messages' = added
      /\ fetches' = IF EndsWithQuestionMark(question)
                    THEN createResponse(fetches, a, added) ELSE fetches
      /\ question' = <<>>
      /\ calls' = Append(calls, Call(question, "question", Undefined, "askQuestion", a))
      /\ last' = Last("askQuestion", a, NoData, question)
      /\ view' = Watch(view, FALSE, messages, messages')
      /\ UNCHANGED <<now, started>>

\* The askQuestion call a was made in the session that is current: its
\* addMessage call is among those made since the last startChat.
AskedThisSession(a) ==
  \E i \in 1..Len(calls) : calls[i].by = "askQuestion" /\ calls[i].ask = a

\* Mutant of ResolveFetch: a generation check, the answer of a request sent
\* before the last startChat is thrown away.
ResolveFetchSameSession(f, resp) ==
  LET response == getRandomResponse(resp)
      current == AskedThisSession(fetches[f].ask)
  IN  /\ f \in Pending
      /\ fetches' = [fetches EXCEPT ![f].status = "resolved"]
      /\ messages' = IF current THEN AppendAnswer(messages, response, now)
                     ELSE messages
      /\ calls' = IF current
                  THEN Append(calls, Call(AnswerText(response), "answer",
                                          AnswerGif(response), "createResponse",
                                          fetches[f].ask))
                  ELSE calls
      /\ last' = Last("resolve", fetches[f].ask, response, question)
      /\ view' = Watch(view, FALSE, messages, messages')
      /\ UNCHANGED <<question, now, asks, started>>

\* The request f resolves with the response resp: the createResponse that
\* awaits it resumes and adds the answer.
ResolveFetch(f, resp) ==
  LET response == getRandomResponse(resp)
  IN  /\ f \in Pending
      /\ fetches' = [fetches EXCEPT ![f].status = "resolved"]
      /\ messages' = AppendAnswer(messages, response, now)
      /\ calls' = Append(calls, Call(AnswerText(response), "answer",
                                     AnswerGif(response), "createResponse",
                                     fetches[f].ask))
      /\ last' = Last("resolve", fetches[f].ask, response, question)
      /\ view' = Watch(view, FALSE, messages, messages')
      /\ UNCHANGED <<question, now, asks, started>>

Resolve == \E f \in 1..Len(fetches), resp \in HttpResponses : ResolveFetch(f, resp)

\* Mutant of Reject: the failure is caught and answered with an empty answer
\* message, try { ... } catch { chat.addMessage('', 'answer') }.
RejectAppendsEmptyAnswer ==
  \E f \in Pending :
    /\ fetches' = [fetches EXCEPT ![f].status = "rejected"]
    /\ messages' = addMessage(messages, <<>>, "answer", Undefined, now)
    /\ calls' = Append(calls, Call(<<>>, "answer", Undefined, "createResponse",
                                   fetches[f].ask))
    /\ last' = Last("reject", fetches[f].ask, NoData, question)
    /\ view' = Watch(view, FALSE, messages, messages')
    /\ UNCHANGED <<question, now, asks, started>>

\* The request f fails: the promise of createResponse rejects, and nobody
\* handles the rejection.
Reject ==
  \E f \in Pending :
    /\ fetches' = [fetches EXCEPT ![f].status = "rejected"]
    /\ last' = Last("reject", fetches[f].ask, NoData, question)
    /\ UNCHANGED <<messages, question, now, asks, calls, started, view>>

\* The wall clock advances.
Tick ==
  /\ now < MaxClock
  /\ now' = now + 1
  /\ last' = Last("tick", 0, NoData, <<>>)
  /\ UNCHANGED <<messages, question, fetches, asks, calls, started, view>>

\* The component: its handlers, the requests it awaits and the clock.
Next ==
  \/ Start
  \/ Input
  \/ AskQuestion
  \/ Resolve
  \/ Reject
  \/ Tick

\* The component from its construction on, startChat not yet called.
Spec == Init /\ [][Next]_vars

\* The composable alone, in the hands of any caller.
SessionNext ==
  \/ Start
  \/ AddMessageCall
  \/ Tick

SessionSpec == Init /\ [][SessionNext]_vars

\* The component once mounted: onMounted has called startChat, and no
\* handler of the component runs before that.
Mounted ==
  /\ messages = startChat
  /\ question = <<>>
  /\ now = 0
  /\ fetches = <<>>
  /\ asks = 0
  /\ calls = <<>>
  /\ started = TRUE
  /\ last = [op |-> "start", ask |-> 0, data |-> NoData, pre |-> -1, q |-> <<>>]
  /\ view = [watch |-> FALSE, container |-> TRUE, queued |-> FALSE, bottom |-> FALSE]

MountedSpec == Mounted /\ [][Next]_vars

\* The mounted component with startChat called by onMounted and by nobody
\* else: the handlers, the requests and the clock.
OnceNext ==
  \/ Input
  \/ AskQuestion
  \/ Resolve
  \/ Reject
  \/ Tick

MountedOnceSpec == Mounted /\ [][OnceNext]_vars

\* The component is mounted: the template is rendered, chatContainer is
\* bound to its element, and onMounted calls startChat.
Mount ==
  /\ ~view.container
  /\ messages' = startChat
  /\ calls' = <<>>
  /\ started' = TRUE
  /\ last' = Last("mount", 0, NoData, <<>>)
  /\ view' = [Watch(view, TRUE, messages, messages') EXCEPT !.container = TRUE]
  /\ UNCHANGED <<question, now, fetches, asks>>

\* The nextTick callback the watcher queued runs: the container, when there
\* is one, is scrolled to its end.
Flush ==
  /\ view.queued
  /\ view' = [view EXCEPT !.queued = FALSE,
                          !.bottom = IF view.container THEN TRUE ELSE @]
  /\ UNCHANGED <<messages, question, now, fetches, asks, calls, started, last>>

\* The later revision of the component, from its construction on: the
\* watcher is registered in setup, the container is null until the mount.
ViewInit ==
  /\ messages = ref
  /\ question = <<>>
  /\ now = 0
  /\ fetches = <<>>
  /\ asks = 0
  /\ calls = <<>>
  /\ started = FALSE
  /\ last = [op |-> "init", ask |-> 0, data |-> NoData, pre |-> -1, q |-> <<>>]
  /\ view = [watch |-> TRUE, container |-> FALSE, queued |-> FALSE, bottom |-> TRUE]

ViewNext ==
  \/ Mount
  \/ Start
  \/ Input
  \/ AskQuestion
  \/ Resolve
  \/ Reject
  \/ Flush

\* The scheduler of Vue runs every queued nextTick callback: a queued scroll
\* is not put off for ever.
ViewSpec == ViewInit /\ [][ViewNext]_vars /\ WF_vars(Flush)

\* ------------------------------------------------------------------ claims
\* The message a call recorded in the history asks for, the time aside.
Carries(m, c) == m.text = c.text /\ m.type = c.type /\ m.gif = c.gif

\* C1: once start() has been called, the sequence holds one message per
\* addMessage call made since the last start(), and its i-th message has the
\* text, kind and illustration of the i-th of those calls.
C1_CallOrder ==
  started =>
    /\ messages.defined
    /\ Len(messages.value) = Len(calls)
    /\ \A i \in 1..Len(calls) : Carries(messages.value[i], calls[i])

\* A session of three calls that differ in text, kind and illustration.
C1_Witness ==
  /\ started
  /\ Len(messages.value) = 3
  /\ messages.value[1].text # messages.value[2].text
  /\ messages.value[2].type # messages.value[3].type
  /\ messages.value[1].gif # messages.value[3].gif

\* C2: while start() has never been called every addMessage call leaves the
\* sequence unset, and the start() that follows dropped calls yields the
\* empty sequence: nothing dropped comes back.
C2_DroppedBeforeStart ==
  /\ [](~started => messages = [defined |-> FALSE, value |-> <<>>])
  /\ [][(~started /\ Len(calls) > 0 /\ started')
          => messages' = [defined |-> TRUE, value |-> <<>>]]_vars

\* Three addMessage calls were made and start() was never called.
C2_Witness ==
  /\ ~started
  /\ ~messages.defined
  /\ Len(calls) = 3

\* C3: start() can always be called, and whatever the sequence was before
\* (unset, empty or holding messages), after it the sequence is the empty one;
\* so two calls in a row leave what one call leaves.
C3_StartResets ==
  /\ ENABLED Start
  /\ last.op = "start" => messages = [defined |-> TRUE, value |-> <<>>]

\* start() has just cleared a sequence of two messages or more.
C3_Witness == last.op = "start" /\ last.pre >= 2 /\ messages.value = <<>>

\* C4: within a session every step leaves the sequence as it is or adds one
\* message at its end, every message already there unchanged in all its
\* fields; the one step that shrinks it is a start(), which empties it.
C4_AppendOnly ==
  [][messages.defined =>
       IF last'.op = "start"
       THEN messages' = [defined |-> TRUE, value |-> <<>>]
       ELSE /\ messages'.defined
            /\ \/ messages'.value = messages.value
               \/ /\ Len(messages'.value) = Len(messages.value) + 1
                  /\ SubSeq(messages'.value, 1, Len(messages.value)) = messages.value]_vars

\* A session of three messages or more, the first added before the clock
\* advanced and the last one after.
C4_Witness ==
  /\ messages.defined
  /\ Len(messages.value) >= 3
  /\ messages.value[1].time # messages.value[Len(messages.value)].time

\* The requests the askQuestion call a sent.
SentBy(a) == { f \in 1..Len(fetches) : fetches[f].ask = a }

\* The last message of the sequence.
Newest == messages.value[Len(messages.value)]

\* C5: askQuestion(rawInput) sends exactly one request to the provider when
\* the last character of rawInput is '?', and none otherwise.
C5_FetchIffQuestionMark ==
  /\ Len(fetches) <= asks
  /\ last.op = "askQuestion" =>
       Cardinality(SentBy(last.ask)) =
         IF Len(last.q) > 0 /\ last.q[Len(last.q)] = "?" THEN 1 ELSE 0

\* The second askQuestion call, with the input "?", has sent the only request
\* of the run: the first call sent none.
C5_Witness ==
  /\ last.op = "askQuestion"
  /\ last.ask = 2
  /\ last.q = <<"?">>
  /\ Len(fetches) = 1
  /\ SentBy(2) = {1}

\* C6: on an initialized session askQuestion(rawInput) adds exactly one
\* message, of kind question, with rawInput as its text and no illustration,
\* and the request of the call, if any, goes out after that message is in the
\* sequence.
C6_QuestionAppended ==
  (last.op = "askQuestion" /\ last.pre >= 0) =>
    /\ messages.defined
    /\ Len(messages.value) = last.pre + 1
    /\ Newest.text = last.q
    /\ Newest.type = "question"
    /\ Newest.gif = Undefined
    /\ \A f \in SentBy(last.ask) : fetches[f].seen = last.pre + 1

\* askQuestion("a?") has added its question to a session that held a message
\* already, and has sent its request.
C6_Witness ==
  /\ last.op = "askQuestion"
  /\ last.pre >= 1
  /\ last.q = <<"a", "?">>
  /\ Newest.text = <<"a", "?">>
  /\ SentBy(last.ask) # {}

\* C7: when askQuestion returns the pending input is empty, whether or not a
\* request was sent, and the request's later resolution or failure leaves the
\* pending input as it finds it.
C7_InputCleared ==
  /\ last.op = "askQuestion" => question = <<>>
  /\ last.op \in {"resolve", "reject"} => question = last.q

\* askQuestion has returned with its request still in flight and the input
\* empty.
C7_Witness ==
  /\ last.op = "askQuestion"
  /\ question = <<>>
  /\ \E f \in SentBy(last.ask) : fetches[f].status = "pending"

\* C8: when a request resolves with a result, createResponse adds exactly one
\* message, of kind answer, whose text is the result's answer and whose
\* illustration is the result's image, absent when the result has none.
C8_AnswerFromResult ==
  (last.op = "resolve" /\ last.data.kind = "object") =>
    /\ messages.defined
    /\ Len(messages.value) = last.pre + 1
    /\ Newest.type = "answer"
    /\ Newest.text = last.data.answer
    /\ Newest.gif = last.data.image

\* A request has resolved with an answer and an image.
C8_Witness ==
  /\ last.op = "resolve"
  /\ last.data.kind = "object"
  /\ last.data.image = "x.gif"
  /\ Newest.gif = "x.gif"

\* C9: when a request resolves with no result (undefined or null),
\* createResponse still adds exactly one message, of kind answer, with the
\* empty text and no illustration.
C9_EmptyAnswer ==
  (last.op = "resolve" /\ last.data.kind \in {"undefined", "null"}) =>
    /\ messages.defined
    /\ Len(messages.value) = last.pre + 1
    /\ Newest.type = "answer"
    /\ Newest.text = <<>>
    /\ Newest.gif = Undefined

\* A request has resolved with no result, and the empty answer is in the
\* sequence.
C9_Witness ==
  /\ last.op = "resolve"
  /\ last.data.kind = "undefined"
  /\ Len(messages.value) = last.pre + 1
  /\ Newest.text = <<>>

\* C10: nothing orders the answers: whatever requests are in flight, each of
\* them may be the next to resolve, a later one before an earlier one.
C10_AnyPendingMayResolve ==
  \A f \in 1..Len(fetches) :
    fetches[f].status = "pending" =>
      ENABLED (\E resp \in HttpResponses : ResolveFetch(f, resp))

\* Question A was asked before question B, both in this session, and the
\* answer to B is in the sequence before the answer to A.
C10_Witness ==
  /\ messages.defined
  /\ Len(messages.value) = Len(calls)
  /\ \E qa, qb, ab, aa \in 1..Len(calls) :
       /\ qa < qb /\ qb < ab /\ ab < aa
       /\ calls[qa].by = "askQuestion" /\ calls[qa].ask = 1
       /\ calls[qb].by = "askQuestion" /\ calls[qb].ask = 2
       /\ calls[ab].by = "createResponse" /\ calls[ab].ask = 2
       /\ calls[aa].by = "createResponse" /\ calls[aa].ask = 1
       /\ messages.value[ab].type = "answer"
       /\ messages.value[aa].type = "answer"

\* The addMessage call made last.
NewestCall == calls[Len(calls)]

\* C11: a request in flight when start() resets the session still delivers:
\* when it resolves afterwards its answer is added to the new session's
\* sequence, which then holds an answer whose question was asked in the
\* abandoned session and is not in the sequence.
C11_StaleAnswerAppended ==
  (last.op = "resolve" /\ ~(\E i \in 1..(Len(calls) - 1) :
                              calls[i].by = "askQuestion" /\ calls[i].ask = last.ask)) =>
    /\ messages.defined
    /\ Len(messages.value) = last.pre + 1
    /\ Newest.type = "answer"
    /\ Newest.text = (IF last.data.kind = "object" THEN last.data.answer ELSE <<>>)
    /\ Len(calls) = Len(messages.value)
    /\ NewestCall.by = "createResponse" /\ NewestCall.ask = last.ask

\* The session was reset with a request in flight; a question of the new
\* session is in the sequence, and after it the answer to the question of the
\* abandoned one.
C11_Witness ==
  /\ last.op = "resolve"
  /\ last.ask = 1
  /\ Len(messages.value) = 2
  /\ messages.value[1].type = "question"
  /\ messages.value[2].type = "answer"
  /\ calls[1].by = "askQuestion" /\ calls[1].ask = 2
  /\ calls[2].by = "createResponse" /\ calls[2].ask = 1

\* Some request has failed.
SomeFailed == \E f \in 1..Len(fetches) : fetches[f].status = "rejected"

\* C12: a failed request leaves the sequence and the pending input as they
\* are, and wedges nothing: after it start(), addMessage, the input and
\* askQuestion can still run, every other request in flight can still
\* resolve, and askQuestion still adds its question and sends its request.
C12_FailureHarmless ==
  /\ [][last'.op = "reject" => (messages' = messages /\ question' = question)]_vars
  /\ [](SomeFailed =>
          /\ ENABLED Start
          /\ ENABLED AddMessageCall
          /\ ENABLED Input
          /\ asks < MaxAsks => ENABLED AskQuestion
          /\ \A f \in 1..Len(fetches) :
               fetches[f].status = "pending" =>
                 ENABLED (\E resp \in HttpResponses : ResolveFetch(f, resp))
          /\ last.op = "askQuestion" =>
               /\ Len(messages.value) = last.pre + 1
               /\ Newest.text = last.q
               /\ Newest.type = "question"
               /\ question = <<>>
               /\ Cardinality(SentBy(last.ask)) =
                    IF Len(last.q) > 0 /\ last.q[Len(last.q)] = "?" THEN 1 ELSE 0)

\* The first request failed; the question asked after the failure is in the
\* sequence and its request is in flight.
C12_Witness ==
  /\ Len(fetches) = 2
  /\ fetches[1].status = "rejected"
  /\ last.op = "askQuestion"
  /\ last.ask = 2
  /\ Len(messages.value) = 2
  /\ Newest.text = <<"a", "?">>
  /\ fetches[2].status = "pending"

\* C13: the sequence is unset until start() is first called and set ever
\* after; the step that sets it is a start() and leaves it empty; and the
\* sequence grows only by the message of an addMessage call, one at a time.
C13_LifecycleOneWay ==
  /\ [](started <=> messages.defined)
  /\ [][messages.defined => messages'.defined]_vars
  /\ [][(~messages.defined /\ messages'.defined) =>
          (last'.op = "start" /\ messages'.value = <<>>)]_vars
  /\ [][Len(messages'.value) > Len(messages.value) =>
          /\ Len(messages'.value) = Len(messages.value) + 1
          /\ Len(calls') = Len(calls) + 1
          /\ Carries(messages'.value[Len(messages'.value)], calls'[Len(calls')])]_vars

\* A question was asked and dropped before start(); after start() its answer
\* arrived and a second start() has emptied the sequence again.
C13_Witness ==
  /\ Len(fetches) >= 1
  /\ fetches[1].seen = -1
  /\ fetches[1].status = "resolved"
  /\ last.op = "start"
  /\ last.pre >= 1
  /\ messages = [defined |-> TRUE, value |-> <<>>]

\* C14: in a session that has not been reset since an askQuestion call, the
\* answer of that call's request, once in the sequence, comes after the
\* call's question: the question is there, at a smaller index, and its text
\* ends in '?'.
C14_QuestionBeforeAnswer ==
  messages.defined =>
    \A k \in 1..Len(calls) :
      (calls[k].by = "createResponse" /\ AskedThisSession(calls[k].ask)) =>
        /\ k <= Len(messages.value)
        /\ messages.value[k].type = "answer"
        /\ messages.value[k].text = calls[k].text
        /\ \E j \in 1..(k - 1) :
             /\ calls[j].by = "askQuestion"
             /\ calls[j].ask = calls[k].ask
             /\ messages.value[j].type = "question"
             /\ messages.value[j].text = calls[j].text
             /\ EndsWithQuestionMark(messages.value[j].text)

\* Two questions were asked and their answers arrived in the opposite order.
C14_Witness ==
  /\ messages.defined
  /\ Len(messages.value) = 4
  /\ Len(calls) = 4
  /\ calls[1].by = "askQuestion" /\ calls[1].ask = 1
  /\ calls[2].by = "askQuestion" /\ calls[2].ask = 2
  /\ calls[3].by = "createResponse" /\ calls[3].ask = 2
  /\ calls[4].by = "createResponse" /\ calls[4].ask = 1
  /\ messages.value[3].type = "answer"
  /\ messages.value[4].type = "answer"

\* C15: every message the component adds is a question or an answer; a
\* question never has an illustration; a message with an illustration is an
\* answer added by createResponse, and the illustration is the image of the
\* body the service answered with.
C15_KindsAndIllustration ==
  messages.defined =>
    /\ \A i \in 1..Len(messages.value) :
         /\ messages.value[i].type \in {"question", "answer"}
         /\ messages.value[i].type = "question" => messages.value[i].gif = Undefined
         /\ messages.value[i].gif # Undefined =>
              /\ messages.value[i].type = "answer"
              /\ calls[i].by = "createResponse"
    /\ (last.op = "resolve" /\ Newest.gif # Undefined) =>
         /\ last.data.kind = "object"
         /\ last.data.image = Newest.gif
    /\ (last.op = "resolve" /\ Newest.gif = Undefined) =>
         (last.data.kind = "object" => last.data.image = Undefined)

\* Two questions, an answer with an image and an answer without one.
C15_Witness ==
  /\ messages.defined
  /\ Len(messages.value) = 4
  /\ messages.value[1].type = "question"
  /\ messages.value[2].type = "question"
  /\ messages.value[3].gif = "x.gif"
  /\ messages.value[4].type = "answer"
  /\ messages.value[4].gif = Undefined
  /\ last.op = "resolve"
  /\ last.data.kind = "object"

\* The answers among the first n messages of s.
Answers(s, n) == { i \in 1..n : s[i].type = "answer" }

\* The questions among the first n messages of s whose text ends in '?'.
MarkedQuestions(s, n) ==
  { i \in 1..n : /\ s[i].type = "question"
                 /\ Len(s[i].text) > 0
                 /\ s[i].text[Len(s[i].text)] = "?" }

\* C16: when start() is called once, on mount, every prefix of the sequence
\* has at most as many answers as questions ending in '?', and with no
\* request in flight and none failed the whole sequence has as many of one
\* as of the other.
C16_AnswersMatchQuestions ==
  /\ messages.defined
  /\ \A n \in 0..Len(messages.value) :
       Cardinality(Answers(messages.value, n)) <=
         Cardinality(MarkedQuestions(messages.value, n))
  /\ (Pending = {} /\ ~SomeFailed) =>
       Cardinality(Answers(messages.value, Len(messages.value))) =
         Cardinality(MarkedQuestions(messages.value, Len(messages.value)))

\* A remark without a question mark, a question and its answer; nothing in
\* flight, nothing failed.
C16_Witness ==
  /\ Len(messages.value) = 3
  /\ messages.value[1].type = "question"
  /\ messages.value[1].text = <<" ">>
  /\ messages.value[2].text = <<"a", "?">>
  /\ messages.value[3].type = "answer"
  /\ Pending = {}
  /\ ~SomeFailed

\* C17: the read view is the sequence as addMessage left it, the new message
\* last; every change of the sequence queues the scroll; and once the
\* container exists a view left short of the end by a change is eventually
\* scrolled to the end.
C17_ViewFollows ==
  /\ [](view \in Views)
  /\ []((last.op \in {"askQuestion", "resolve"} /\ last.pre >= 0) =>
          /\ history.defined
          /\ Len(history.value) = last.pre + 1
          /\ Carries(history.value[Len(history.value)], NewestCall))
  /\ [][messages' # messages => (view'.queued /\ ~view'.bottom)]_vars
  /\ []((view.container /\ ~view.bottom) => view.queued)
  /\ ((view.container /\ ~view.bottom) ~> view.bottom)

\* An answer was appended to a sequence of two messages or more and the view
\* has been scrolled to the end since.
C17_Witness ==
  /\ view.container
  /\ view.bottom
  /\ ~view.queued
  /\ last.op = "resolve"
  /\ last.pre >= 2
  /\ Len(messages.value) = last.pre + 1

\* C18: askQuestion on a session never started drops the question and still
\* sends one request when the input ends in '?', none otherwise; and when
\* start() is called before that request resolves, the answer is appended to
\* a sequence that holds no question of that call.
C18_FetchRegardlessOfSession ==
  /\ (last.op = "askQuestion" /\ last.pre = -1) =>
       /\ ~messages.defined
       /\ question = <<>>
       /\ Cardinality(SentBy(last.ask)) =
            IF Len(last.q) > 0 /\ last.q[Len(last.q)] = "?" THEN 1 ELSE 0
       /\ \A f \in SentBy(last.ask) :
            fetches[f].status = "pending" /\ fetches[f].seen = -1
  /\ (/\ last.op = "resolve"
      /\ last.pre >= 0
      /\ \E f \in SentBy(last.ask) : fetches[f].seen = -1) =>
       /\ Len(messages.value) = last.pre + 1
       /\ Newest.type = "answer"
       /\ Newest.text = AnswerText(last.data)
       /\ NewestCall.by = "createResponse" /\ NewestCall.ask = last.ask
       /\ \A i \in 1..Len(messages.value) :
            messages.value[i].type = "question" =>
              (calls[i].by = "askQuestion" /\ calls[i].ask # last.ask)

\* The one question of the run was asked before start(); after start() its
\* answer is the only message of the sequence.
C18_Witness ==
  /\ last.op = "resolve"
  /\ last.ask = 1
  /\ Len(fetches) = 1
  /\ fetches[1].seen = -1
  /\ fetches[1].status = "resolved"
  /\ messages.defined
  /\ Len(messages.value) = 1
  /\ messages.value[1].type = "answer"

====
